---------------------------- MODULE Spec2Model ----------------------------
(***************************************************************************)
(* Lipsynctool_beta: the RMS kernel calculate_rms_fast (rms_fast.pyx), the *)
(* AnalyzeAudio remote call (analysis.proto), the envelope extractor and   *)
(* the timeline undo/redo history.                                         *)
(*                                                                         *)
(* Floating-point values are held as integer counts of the smallest        *)
(* representable step (2^-FracBits); a format keeps MantF (float32) or     *)
(* MantD (double) significant bits and rounds to nearest, ties to even.    *)
(***************************************************************************)
EXTENDS Integers, Sequences, FiniteSets, TLC

\* ------------------------------------------------------------------ bounds
MaxLen == 3          \* longest sample buffer
MaxThreads == 3      \* largest OpenMP team
MantF == 3           \* significant bits of the float32 stand-in
MantD == 4           \* significant bits of the double stand-in
MaxPhonemes == 2     \* longest phoneme list of a response
MaxWin == 3          \* largest window size W
MaxTime == 3         \* end of the timeline's time grid 0..MaxTime
MaxHist == 2         \* most commands held in the undo history
FracBits == 2        \* fractional bits: One = 2^FracBits steps

\* ------------------------------------------------------- number formats
RECURSIVE Pow2(_)
Pow2(k) == IF k <= 0 THEN 1 ELSE 2 * Pow2(k - 1)

RECURSIVE BitLen(_)
BitLen(x) == IF x <= 0 THEN 0 ELSE 1 + BitLen(x \div 2)

Max(a, b) == IF a >= b THEN a ELSE b

Abs(x) == IF x < 0 THEN 0 - x ELSE x

One == Pow2(FracBits)

\* a / b (a >= 0, b > 0) to the nearest integer, ties to even
RoundQ(a, b) ==
    LET q == a \div b
        r == a % b
    IN  IF 2 * r < b THEN q
        ELSE IF 2 * r > b THEN q + 1
        ELSE IF q % 2 = 0 THEN q ELSE q + 1

\* a / b rounded to p significant bits (sign-symmetric)
FRound(p, a, b) ==
    LET m  == Abs(a)
        sh == Max(0, BitLen(m \div b) - p)
        v  == RoundQ(m, b * Pow2(sh)) * Pow2(sh)
    IN  IF a < 0 THEN 0 - v ELSE v

\* float32 * float32 in C is a float32 product
FMul32(x, y) == FRound(MantF, x * y, One)

\* float32 -> double conversion
Promote(x) == FRound(MantD, x, 1)

\* the accumulator declared float instead of double
FAddSingle(x, y) == FRound(MantF, x + y, 1)

\* double + double
FAdd64(x, y) == FRound(MantD, x + y, 1)

\* stands for nan and inf, outside the range of the finite values used
NonFinite == 0 - Pow2(30)

\* double / (double) size_t; cdivision=True: dividing by zero raises nothing
\* and yields nan or inf
FDiv64(x, k) == IF k = 0 THEN NonFinite ELSE FRound(MantD, x, k)

RECURSIVE ISqrt(_)
ISqrt(y) ==
    IF y < 2 THEN y
    ELSE LET r == 2 * ISqrt(y \div 4)
         IN  IF (r + 1) * (r + 1) <= y THEN r + 1 ELSE r

\* math.sqrt on a double x >= 0: the correctly rounded square root
FSqrt64(x) ==
    LET y   == x * One
        s   == ISqrt(y)
        sh  == Max(0, BitLen(s) - MantD)
        g   == Pow2(sh)
        lo  == (s \div g) * g
        mid == 2 * lo + g
    IN  IF 4 * y < mid * mid THEN lo
        ELSE IF 4 * y > mid * mid THEN lo + g
        ELSE IF (lo \div g) % 2 = 0 THEN lo ELSE lo + g

\* the square root left out: the mean square is returned
RootOf_MeanSquare(q) == q

\* math.sqrt(q) for q >= 0; math.sqrt(nan) is nan, math.sqrt(inf) is inf
RootOf(q) == IF q = NonFinite THEN NonFinite ELSE FSqrt64(q)

\* a float32 whose square needs all of a double's significant bits
Big == Pow2((MantD + 1) \div 2) * One

\* float32 sample values (in steps of 1/One): -1.0, 0.0 and Big
Samples == {0 - One, 0, Big}

RECURSIVE SeqsUpTo(_, _)
SeqsUpTo(S, k) ==
    IF k = 0 THEN {<<>>}
    ELSE LET shorter == SeqsUpTo(S, k - 1)
         IN  shorter \cup {Append(s, x) : s \in {t \in shorter : Len(t) = k - 1}, x \in S}

Buffers == SeqsUpTo(Samples, MaxLen)

\* ------------------------------------------------------------------- state
VARIABLES
    audio_data,   \* the float32 buffer passed to calculate_rms_fast
    n,            \* size_t n = audio_data.shape[0]
    sum_sq,       \* the double accumulator (the reduction's original variable)
    pc,           \* position of the call
    chunk,        \* per thread: the [lo, hi) indices the static schedule gave it
    idx,          \* per thread: next index of its chunk
    local,        \* per thread: private copy of sum_sq
    tpc,          \* per thread: "loop" or "done"
    order,        \* thread ids in the order their partial sums were combined
    visits,       \* per index: how many times its square was accumulated
    result,       \* <<>> or <<returned RMS>>
    exc,          \* "none" or the exception raised
    prev,         \* <<>> or the outcome of an earlier call on the same buffer
    calls,        \* AnalyzeAudio calls: per call id its state, request, responses
    env,          \* the envelope extraction: position, W, H, hop index, curve, error
    tl,           \* the timeline: blocks, past and future command stacks
    snaps         \* the block lists reached by the commands of past and future

vars == <<audio_data, n, sum_sq, pc, chunk, idx, local, tpc, order, visits,
          result, exc, prev, calls, env, tl, snaps>>

\* everything but the state of calculate_rms_fast
notKernel == <<calls, env, tl, snaps>>

\* the state of calculate_rms_fast
kernelVars == <<audio_data, n, sum_sq, pc, chunk, idx, local, tpc, order, visits,
                result, exc, prev>>

\* no remote call is modelled alongside the kernel
NoCalls == <<>>

\* no timeline is open
NoTimeline == [blocks |-> <<>>, past |-> <<>>, future |-> <<>>]

\* no envelope extraction is under way
NoEnvelope == [pc |-> "idle", W |-> 0, H |-> 0, i |-> 0, curve |-> <<>>, error |-> "none"]

\* the calculate_rms_fast call has not been made
KernelIdle ==
    /\ n = 0
    /\ sum_sq = 0
    /\ pc = "idle"
    /\ chunk = <<>>
    /\ idx = <<>>
    /\ local = <<>>
    /\ tpc = <<>>
    /\ order = <<>>
    /\ visits = <<>>
    /\ result = <<>>
    /\ exc = "none"
    /\ prev = <<>>

Init ==
    /\ calls = NoCalls
    /\ env = NoEnvelope
    /\ tl = NoTimeline
    /\ snaps = <<>>
    /\ audio_data \in Buffers
    /\ n = 0
    /\ sum_sq = 0
    /\ pc = "call"
    /\ chunk = <<>>
    /\ idx = <<>>
    /\ local = <<>>
    /\ tpc = <<>>
    /\ order = <<>>
    /\ visits = <<>>
    /\ result = <<>>
    /\ exc = "none"
    /\ prev = <<>>

\* ----------------------------------------------------- calculate_rms_fast
\* the accumulator left uninitialised
Enter_Uninit ==
    /\ pc = "call"
    /\ n' = Len(audio_data)
    /\ sum_sq' = One
    /\ pc' = "check"
    /\ UNCHANGED <<audio_data, chunk, idx, local, tpc, order, visits, result, exc, prev>>
    /\ UNCHANGED notKernel

\* cdef: size_t n = audio_data.shape[0]; double sum_sq = 0.0
Enter ==
    /\ pc = "call"
    /\ n' = Len(audio_data)
    /\ sum_sq' = 0
    /\ pc' = "check"
    /\ UNCHANGED <<audio_data, chunk, idx, local, tpc, order, visits, result, exc, prev>>
    /\ UNCHANGED notKernel

\* if n == 0: raise ValueError
RaiseEmpty ==
    /\ pc = "check"
    /\ n = 0
    /\ exc' = "ValueError"
    /\ pc' = "raised"
    /\ UNCHANGED <<audio_data, n, sum_sq, chunk, idx, local, tpc, order, visits, result, prev>>
    /\ UNCHANGED notKernel

\* chunk ends one index too far: neighbouring chunks overlap
StaticChunks_Overlap(len, T, extra) ==
    LET q == len \div T
    IN  [t \in 1..T |->
            LET lo == (t - 1) * q + Cardinality({e \in extra : e < t})
                hi == lo + q + (IF t \in extra THEN 1 ELSE 0)
            IN  [lo |-> lo, hi |-> IF hi < len THEN hi + 1 ELSE hi]]

\* schedule='static' without a chunk size: contiguous chunks of nearly equal
\* size, at most one per thread; which threads get the longer ones is the
\* runtime's choice.  extra is the set of threads given q + 1 iterations.
StaticChunks(len, T, extra) ==
    LET q == len \div T
    IN  [t \in 1..T |->
            LET lo == (t - 1) * q + Cardinality({e \in extra : e < t})
            IN  [lo |-> lo, hi |-> lo + q + (IF t \in extra THEN 1 ELSE 0)]]

StaticPartitions(len, T) ==
    {StaticChunks(len, T, extra) :
        extra \in {e \in SUBSET (1..T) : Cardinality(e) = len % T}}

\* the loop entered without the emptiness check
Fork_NoEmptyCheck ==
    /\ pc = "check"
    /\ \E T \in 1..MaxThreads :
         \E c \in StaticPartitions(n, T) :
            /\ chunk' = c
            /\ idx' = [t \in 1..T |-> c[t].lo]
            /\ local' = [t \in 1..T |-> 0]
            /\ tpc' = [t \in 1..T |-> "loop"]
    /\ order' = <<>>
    /\ visits' = [i \in 1..n |-> 0]
    /\ pc' = "parallel"
    /\ UNCHANGED <<audio_data, n, sum_sq, result, exc, prev>>
    /\ UNCHANGED notKernel

\* for i in prange(n, nogil=True, schedule='static'): the team starts, every
\* thread with a private sum_sq initialised to 0.0
Fork ==
    /\ pc = "check"
    /\ n # 0
    /\ \E T \in 1..MaxThreads :
         \E c \in StaticPartitions(n, T) :
            /\ chunk' = c
            /\ idx' = [t \in 1..T |-> c[t].lo]
            /\ local' = [t \in 1..T |-> 0]
            /\ tpc' = [t \in 1..T |-> "loop"]
    /\ order' = <<>>
    /\ visits' = [i \in 1..n |-> 0]
    /\ pc' = "parallel"
    /\ UNCHANGED <<audio_data, n, sum_sq, result, exc, prev>>
    /\ UNCHANGED notKernel

\* every thread adds into the one shared sum_sq (no reduction)
Accumulate_Shared(t) ==
    /\ pc = "parallel"
    /\ tpc[t] = "loop"
    /\ idx[t] < chunk[t].hi
    /\ LET x == audio_data[idx[t] + 1]
       IN  sum_sq' = FAdd64(sum_sq, Promote(FMul32(x, x)))
    /\ visits' = [visits EXCEPT ![idx[t] + 1] = @ + 1]
    /\ idx' = [idx EXCEPT ![t] = @ + 1]
    /\ UNCHANGED <<audio_data, n, local, pc, chunk, tpc, order, result, exc, prev>>
    /\ UNCHANGED notKernel

\* the sample is added, not its square
Accumulate_NoSquare(t) ==
    /\ pc = "parallel"
    /\ tpc[t] = "loop"
    /\ idx[t] < chunk[t].hi
    /\ LET x == audio_data[idx[t] + 1]
       IN  local' = [local EXCEPT ![t] = FAdd64(@, Promote(x))]
    /\ visits' = [visits EXCEPT ![idx[t] + 1] = @ + 1]
    /\ idx' = [idx EXCEPT ![t] = @ + 1]
    /\ UNCHANGED <<audio_data, n, sum_sq, pc, chunk, tpc, order, result, exc, prev>>
    /\ UNCHANGED notKernel

\* the square is stored back into the buffer before it is added
Accumulate_InPlace(t) ==
    /\ pc = "parallel"
    /\ tpc[t] = "loop"
    /\ idx[t] < chunk[t].hi
    /\ LET x == audio_data[idx[t] + 1]
       IN  /\ audio_data' = [audio_data EXCEPT ![idx[t] + 1] = FMul32(x, x)]
           /\ local' = [local EXCEPT ![t] = FAdd64(@, Promote(FMul32(x, x)))]
    /\ visits' = [visits EXCEPT ![idx[t] + 1] = @ + 1]
    /\ idx' = [idx EXCEPT ![t] = @ + 1]
    /\ UNCHANGED <<n, sum_sq, pc, chunk, tpc, order, result, exc, prev>>
    /\ UNCHANGED notKernel

\* sum_sq += audio_data[i] * audio_data[i], on the thread's private copy
Accumulate(t) ==
    /\ pc = "parallel"
    /\ tpc[t] = "loop"
    /\ idx[t] < chunk[t].hi
    /\ LET x == audio_data[idx[t] + 1]
       IN  local' = [local EXCEPT ![t] = FAdd64(@, Promote(FMul32(x, x)))]
    /\ visits' = [visits EXCEPT ![idx[t] + 1] = @ + 1]
    /\ idx' = [idx EXCEPT ![t] = @ + 1]
    /\ UNCHANGED <<audio_data, n, sum_sq, pc, chunk, tpc, order, result, exc, prev>>
    /\ UNCHANGED notKernel

\* end of the parallel region: the thread's partial sum is combined into the
\* original sum_sq (the + reduction), one thread at a time
Combine(t) ==
    /\ pc = "parallel"
    /\ tpc[t] = "loop"
    /\ idx[t] = chunk[t].hi
    /\ sum_sq' = FAdd64(sum_sq, local[t])
    /\ tpc' = [tpc EXCEPT ![t] = "done"]
    /\ order' = Append(order, t)
    /\ UNCHANGED <<audio_data, n, pc, chunk, idx, local, visits, result, exc, prev>>
    /\ UNCHANGED notKernel

\* return math.sqrt(sum_sq / n)
Return ==
    /\ pc = "parallel"
    /\ \A t \in DOMAIN tpc : tpc[t] = "done"
    /\ LET q == FDiv64(sum_sq, n)
       IN  IF q # NonFinite /\ q < 0
           THEN /\ exc' = "ValueError"
                /\ pc' = "raised"
                /\ UNCHANGED result
           ELSE /\ result' = <<RootOf(q)>>
                /\ pc' = "returned"
                /\ UNCHANGED exc
    /\ UNCHANGED <<audio_data, n, sum_sq, chunk, idx, local, tpc, order, visits, prev>>
    /\ UNCHANGED notKernel

\* the chunks that hold at least one index, in thread order
WorkChunks == SelectSeq(chunk, LAMBDA c : c.lo < c.hi)

\* the combination order of the threads that had work, as the [lo, hi) chunk
\* each combined (a thread without work adds its initial 0.0)
WorkOrder ==
    LET worked == SelectSeq(order, LAMBDA t : chunk[t].lo < chunk[t].hi)
    IN  [k \in 1..Len(worked) |-> chunk[worked[k]]]

\* a second call of calculate_rms_fast on the same buffer
CallAgain ==
    /\ pc = "returned"
    /\ prev = <<>>
    /\ prev' = <<[result |-> result[1], chunks |-> WorkChunks, order |-> WorkOrder]>>
    /\ pc' = "call"
    /\ n' = 0
    /\ sum_sq' = 0
    /\ chunk' = <<>>
    /\ idx' = <<>>
    /\ local' = <<>>
    /\ tpc' = <<>>
    /\ order' = <<>>
    /\ visits' = <<>>
    /\ result' = <<>>
    /\ UNCHANGED <<audio_data, exc>>
    /\ UNCHANGED notKernel

\* ------------------------------------------------------- reference values
\* the loop of calculate_rms_fast run by one thread over indices [lo, hi)
RECURSIVE SeqLoop(_, _, _, _)
SeqLoop(a, lo, hi, acc) ==
    IF lo >= hi THEN acc
    ELSE SeqLoop(a, lo + 1, hi, FAdd64(acc, Promote(FMul32(a[lo + 1], a[lo + 1]))))

SequentialSumSq(a) == SeqLoop(a, 0, Len(a), 0)

\* the real-number sum of the float32 squares of a[lo+1 .. hi]
RECURSIVE ExactSumSq(_, _, _)
ExactSumSq(a, lo, hi) ==
    IF lo >= hi THEN 0
    ELSE FMul32(a[hi], a[hi]) + ExactSumSq(a, lo, hi - 1)

IsDouble(x) == FRound(MantD, x, 1) = x

\* the permutations of 1..k, as sequences
RECURSIVE Perms(_)
Perms(k) ==
    IF k = 0 THEN {<<>>}
    ELSE {[j \in 1..k |-> IF j < p THEN q[j] ELSE IF j = p THEN k ELSE q[j - 1]] :
            q \in Perms(k - 1), p \in 1..k}

\* the reduction's result for chunks c combined in the order ord
RECURSIVE CombineAll(_, _, _, _)
CombineAll(a, c, ord, acc) ==
    IF ord = <<>> THEN acc
    ELSE CombineAll(a, c, Tail(ord),
                    FAdd64(acc, SeqLoop(a, c[Head(ord)].lo, c[Head(ord)].hi, 0)))

\* every value calculate_rms_fast may return for a non-empty buffer a
KernelResults(a) ==
    UNION {{RootOf(FDiv64(CombineAll(a, c, ord, 0), Len(a))) :
                c \in StaticPartitions(Len(a), T), ord \in Perms(T)} :
           T \in 1..MaxThreads}

Finished == pc \in {"returned", "raised"}

\* ------------------------------------------------------------------ claims

\* C1: an empty buffer makes calculate_rms_fast raise and return no value; the
\* emptiness check precedes the loop and the division, so the parallel loop
\* and the division sum_sq / n are reached only with n >= 1.
C1_EmptyRaises ==
    /\ (Finished /\ Len(audio_data) = 0) =>
          (pc = "raised" /\ exc = "ValueError" /\ result = <<>>)
    /\ Len(audio_data) = 0 => (chunk = <<>> /\ visits = <<>> /\ sum_sq = 0)
    /\ pc \in {"parallel", "returned"} => n >= 1
    /\ result # <<>> => result[1] # NonFinite

C1_Witness == pc = "raised" /\ Len(audio_data) = 0 /\ n = 0 /\ exc = "ValueError"

\* C2 (as stated): ... and the final sum_sq equals the sum computed by a
\* sequential loop over the same buffer.
C2_EqualsSequential ==
    pc = "returned" => sum_sq = SequentialSumSq(audio_data)

C2_State ==
    /\ pc \in {"parallel", "returned"} =>
          /\ \A i \in 1..n : visits[i] <= 1
          /\ \A i \in 1..n :
                visits[i] = Cardinality({t \in DOMAIN chunk :
                                chunk[t].lo < i /\ i <= idx[t]})
    /\ pc = "returned" =>
          /\ \A i \in 1..n : visits[i] = 1
          /\ sum_sq = CombineAll(audio_data, chunk, order, 0)
          /\ Abs(sum_sq - ExactSumSq(audio_data, 0, n)) * Pow2(MantD)
                <= (n - 1) * sum_sq
          /\ Abs(SequentialSumSq(audio_data) - ExactSumSq(audio_data, 0, n)) * Pow2(MantD)
                <= (n - 1) * SequentialSumSq(audio_data)
          /\ (ExactSumSq(audio_data, 0, n) < Pow2(MantD) \/ Len(WorkChunks) <= 1)
                => sum_sq = SequentialSumSq(audio_data)

C2_Step ==
    (pc = "parallel" /\ pc' = "parallel") =>
        /\ \A t \in DOMAIN local :
              (local'[t] # local[t] \/ idx'[t] # idx[t]) =>
                  /\ sum_sq' = sum_sq
                  /\ tpc' = tpc
                  /\ \A u \in DOMAIN local \ {t} :
                        local'[u] = local[u] /\ idx'[u] = idx[u]
        /\ (sum_sq' # sum_sq \/ tpc' # tpc) =>
              /\ local' = local
              /\ \E t \in DOMAIN tpc :
                    /\ tpc[t] = "loop" /\ tpc'[t] = "done"
                    /\ idx[t] = chunk[t].hi
                    /\ sum_sq' = FAdd64(sum_sq, local[t])
                    /\ \A u \in DOMAIN tpc \ {t} : tpc'[u] = tpc[u]

\* C2 (amended): for every static partition and every interleaving each index
\* contributes its square exactly once, a thread's step touches only its own
\* private partial sum until the final combination, and the final sum_sq
\* equals the sequential loop's sum up to floating-point rounding: both are
\* within (n - 1) * 2^-MantD (relative) of the exact sum of the squares, and
\* they are identical when the exact sum is below 2^MantD steps (no addition
\* rounds) or one thread did all the work.
C2_ReductionSafe == []C2_State /\ [][C2_Step]_vars

C2_Witness ==
    /\ pc = "returned"
    /\ Len(WorkChunks) >= 2
    /\ \A i \in 1..n : visits[i] = 1
    /\ sum_sq > 0

\* C3 (as stated): two runs on the same buffer return the same value whatever
\* the number of worker threads and the order of combination.
C3_SameValueAlways ==
    (pc = "returned" /\ prev # <<>>) => result[1] = prev[1].result

\* C3 (amended): two runs on the same buffer return the same value when the
\* indices are split among the workers in the same way and the partial sums
\* are combined in the same order (or at most two workers had work).
C3_SameConfigSameValue ==
    (/\ pc = "returned"
     /\ prev # <<>>
     /\ WorkChunks = prev[1].chunks
     /\ (WorkOrder = prev[1].order \/ Len(WorkChunks) <= 2))
    => result[1] = prev[1].result

C3_Witness ==
    /\ pc = "returned"
    /\ prev # <<>>
    /\ Len(WorkChunks) = 3
    /\ WorkChunks = prev[1].chunks
    /\ WorkOrder = prev[1].order
    /\ result[1] = prev[1].result
    /\ result[1] > 0

\* C4: for a silent buffer (all samples zero, n >= 1) the returned amplitude
\* is exactly 0.
C4_SilentIsZero ==
    (Finished /\ Len(audio_data) >= 1 /\ \A i \in 1..Len(audio_data) : audio_data[i] = 0)
    => (pc = "returned" /\ result = <<0>>)

C4_Witness ==
    /\ pc = "returned"
    /\ Len(audio_data) = MaxLen
    /\ \A i \in 1..Len(audio_data) : audio_data[i] = 0
    /\ result = <<0>>

\* C6: at every step of the accumulation sum_sq and every partial sum are
\* >= 0, and so is every returned RMS value; a non-empty buffer always
\* returns a value.
C6_NonNegative ==
    /\ sum_sq >= 0
    /\ \A t \in DOMAIN local : local[t] >= 0
    /\ result # <<>> => result[1] >= 0
    /\ (Finished /\ Len(audio_data) >= 1) => pc = "returned"

C6_Witness ==
    /\ pc = "returned"
    /\ \E i \in 1..n : audio_data[i] < 0
    /\ result[1] > 0

\* C9: calculate_rms_fast only reads audio_data: no step of the call changes
\* an element or the length of the buffer.
C9_BufferUnchanged == [][audio_data' = audio_data]_vars

C9_Witness ==
    /\ pc = "returned"
    /\ n = MaxLen
    /\ \A i \in 1..n : visits[i] = 1 /\ audio_data[i] # 0

\* C10: the sum of squares is accumulated in double precision: as long as
\* every exact running sum of a thread's chunk is representable as a double,
\* the thread's accumulator holds exactly that running sum, and every
\* accumulator value is a double.
C10_DoubleAccumulation ==
    /\ IsDouble(sum_sq)
    /\ \A t \in DOMAIN local :
          /\ IsDouble(local[t])
          /\ (\A k \in chunk[t].lo .. idx[t] :
                 IsDouble(ExactSumSq(audio_data, chunk[t].lo, k)))
             => local[t] = ExactSumSq(audio_data, chunk[t].lo, idx[t])

C10_Witness ==
    /\ pc = "returned"
    /\ Len(chunk) = 1
    /\ sum_sq = ExactSumSq(audio_data, 0, n)
    /\ FRound(MantF, sum_sq, 1) # sum_sq

\* ------------------------------------------------- analysis.AnalysisService
\* message AnalyzeRequest { bytes audio_data = 1; string text = 2;
\*                          string character = 3; bool use_gpu = 4; }
AnalyzeRequest ==
    [audio_data : {<<>>, <<0, 255>>},
     text : {"", "a"},
     character : {"miku"},
     use_gpu : BOOLEAN]

\* message Phoneme { string surface = 1; string phoneme = 2; }
Phoneme == [surface : {"a"}, phoneme : {"a", "i"}]

\* message AnalyzeResponse { float rms_value = 1; repeated Phoneme phonemes = 2; }
AnalyzeResponse ==
    [rms_value : {0, One}, phonemes : SeqsUpTo(Phoneme, MaxPhonemes)]

\* the calls a client may have in flight
CallIds == {"c1", "c2"}

InitRpc ==
    /\ env = NoEnvelope
    /\ calls = [c \in CallIds |-> [state |-> "idle", request |-> <<>>, responses |-> <<>>]]
    /\ audio_data = <<>>
    /\ tl = NoTimeline
    /\ snaps = <<>>
    /\ KernelIdle

\* the client invokes AnalyzeAudio with one AnalyzeRequest
SendRequest(c, req) ==
    /\ calls[c].state = "idle"
    /\ calls' = [calls EXCEPT ![c] = [state |-> "sent", request |-> <<req>>, responses |-> <<>>]]
    /\ UNCHANGED <<kernelVars, env, tl, snaps>>

\* declared "returns (stream AnalyzeResponse)": further responses may follow
AnalyzeAudio_Streaming(c, resp) ==
    /\ calls[c].state \in {"sent", "answered"}
    /\ Len(calls[c].responses) < 2
    /\ calls' = [calls EXCEPT ![c].state = "answered",
                              ![c].responses = Append(@, resp)]
    /\ UNCHANGED <<kernelVars, env, tl, snaps>>

\* rpc AnalyzeAudio (AnalyzeRequest) returns (AnalyzeResponse): the server
\* answers the call with one AnalyzeResponse, which completes it
AnalyzeAudio(c, resp) ==
    /\ calls[c].state = "sent"
    /\ calls' = [calls EXCEPT ![c].state = "answered",
                              ![c].responses = Append(@, resp)]
    /\ UNCHANGED <<kernelVars, env, tl, snaps>>

NextRpc ==
    \/ \E c \in CallIds : \E req \in AnalyzeRequest : SendRequest(c, req)
    \/ \E c \in CallIds : \E resp \in AnalyzeResponse : AnalyzeAudio(c, resp)

\* a served call is answered: the handler of every received call runs
FairRpc == \A c \in CallIds : WF_vars(\E resp \in AnalyzeResponse : AnalyzeAudio(c, resp))

SpecRpc == InitRpc /\ [][NextRpc]_vars /\ FairRpc

\* C7: AnalyzeAudio is a single request/response call: a call carries one
\* AnalyzeRequest (audio bytes, text, character, GPU flag); it never has more
\* than one AnalyzeResponse, a completed call has exactly one, the response
\* carries one rms_value and an ordered list of (surface, phoneme) pairs, and
\* every call that was sent is eventually answered.
C7_CallShape ==
    \A c \in CallIds :
        /\ calls[c].state = "idle" => (calls[c].request = <<>> /\ calls[c].responses = <<>>)
        /\ calls[c].state = "sent" => (Len(calls[c].request) = 1 /\ calls[c].responses = <<>>)
        /\ calls[c].state = "answered" =>
              (Len(calls[c].request) = 1 /\ Len(calls[c].responses) = 1)
        /\ \A k \in DOMAIN calls[c].request :
              /\ DOMAIN calls[c].request[k] = {"audio_data", "text", "character", "use_gpu"}
              /\ calls[c].request[k].use_gpu \in BOOLEAN
        /\ \A k \in DOMAIN calls[c].responses :
              /\ DOMAIN calls[c].responses[k] = {"rms_value", "phonemes"}
              /\ calls[c].responses[k].rms_value \in Int
              /\ \A j \in DOMAIN calls[c].responses[k].phonemes :
                    DOMAIN calls[c].responses[k].phonemes[j] = {"surface", "phoneme"}

C7_AnsweredStays ==
    \A c \in CallIds :
        calls[c].state = "answered" => calls'[c] = calls[c]

Min(a, b) == IF a <= b THEN a ELSE b

\* ceil(a / b) for b > 0 and any integer a
CeilDiv(a, b) == 0 - ((0 - a) \div b)

\* the samples a[lo+1 .. hi]
Window(a, lo, hi) == [j \in 1..(hi - lo) |-> a[lo + j]]

InitEnv ==
    /\ calls = NoCalls
    /\ audio_data \in Buffers
    /\ \E W \in 0..MaxWin : \E H \in 1..Max(W, 1) :
          env = [pc |-> "start", W |-> W, H |-> H, i |-> 0, curve |-> <<>>, error |-> "none"]
    /\ tl = NoTimeline
    /\ snaps = <<>>
    /\ KernelIdle

\* Fails with InvalidInput when the buffer is empty or W <= 0
EnvReject ==
    /\ env.pc = "start"
    /\ Len(audio_data) = 0 \/ env.W <= 0
    /\ env' = [env EXCEPT !.pc = "failed", !.error = "InvalidInput"]
    /\ UNCHANGED <<kernelVars, calls, tl, snaps>>

EnvAccept ==
    /\ env.pc = "start"
    /\ Len(audio_data) > 0 /\ env.W > 0
    /\ env' = [env EXCEPT !.pc = "loop"]
    /\ UNCHANGED <<kernelVars, calls, tl, snaps>>

\* the window's end is not clipped at the end of the buffer
EmitTriple_Unclipped ==
    /\ env.pc = "loop"
    /\ LET start == env.i * env.H
           end   == start + env.W
           last  == end >= Len(audio_data)
       IN  \E amp \in KernelResults(Window(audio_data, start, Min(end, Len(audio_data)))) :
              env' = [env EXCEPT
                        !.curve = Append(@, [start |-> start, end |-> end, amplitude |-> amp]),
                        !.i = IF last THEN @ ELSE @ + 1,
                        !.pc = IF last THEN "done" ELSE "loop"]
    /\ UNCHANGED <<kernelVars, calls, tl, snaps>>

\* hop position i: the triple of the window [i*H, i*H + W), clipped at the
\* end of the buffer, with the RMS of its samples; the last hop position is
\* the first whose window reaches the end of the buffer
EmitTriple ==
    /\ env.pc = "loop"
    /\ LET start == env.i * env.H
           end   == Min(start + env.W, Len(audio_data))
           last  == start + env.W >= Len(audio_data)
       IN  \E amp \in KernelResults(Window(audio_data, start, end)) :
              env' = [env EXCEPT
                        !.curve = Append(@, [start |-> start, end |-> end, amplitude |-> amp]),
                        !.i = IF last THEN @ ELSE @ + 1,
                        !.pc = IF last THEN "done" ELSE "loop"]
    /\ UNCHANGED <<kernelVars, calls, tl, snaps>>

NextEnv ==
    \/ EnvReject
    \/ EnvAccept
    \/ EmitTriple

SpecEnv == InitEnv /\ [][NextEnv]_vars

\* the sum of the squares of the samples a[lo+1 .. hi], in squared steps
RECURSIVE SumSquares(_, _, _)
SumSquares(a, lo, hi) ==
    IF lo >= hi THEN 0 ELSE a[hi] * a[hi] + SumSquares(a, lo, hi - 1)

\* amp is the root mean square of a[lo+1 .. hi] up to the rounding of the
\* float32 products, the double sum, the division and the square root:
\* a relative error of (m + 2) * 2^-MantF and two steps, m the window length
IsRmsOf(amp, a, lo, hi) ==
    LET m == hi - lo
        e == (amp * (m + 2)) \div Pow2(MantF) + 2
        l == Max(0, amp - e)
        u == amp + e
    IN  /\ amp >= 0
        /\ m * l * l <= SumSquares(a, lo, hi)
        /\ SumSquares(a, lo, hi) <= m * u * u

Labels == {"a", "i"}

\* the mouth-shape category of a phoneme label (deterministic lookup)
ShapeOf(l) == IF l = "a" THEN "open" ELSE "wide"

Block(l, s, e) == [label |-> l, shape |-> ShapeOf(l), start |-> s, end |-> e]

Times == 0..MaxTime

\* blocks are ordered by start_time, start_time < end_time, and do not overlap
ValidTimeline(b) ==
    /\ \A k \in DOMAIN b : b[k].start \in Times /\ b[k].end \in Times /\ b[k].start < b[k].end
    /\ \A k \in 1..(Len(b) - 1) : b[k].end <= b[k + 1].start

\* b with the k blocks from position at replaced by repl
Replace(b, at, k, repl) ==
    SubSeq(b, 1, at - 1) \o repl \o SubSeq(b, at + k, Len(b))

\* a command: the tag, the position, the blocks it removes and the blocks it puts
Delta(op, at, old, new) == [op |-> op, at |-> at, old |-> old, new |-> new]

ApplyDelta(b, d) == Replace(b, d.at, Len(d.old), d.new)

ApplyInverse(b, d) == Replace(b, d.at, Len(d.new), d.old)

InsertDelta(b, at, blk) == Delta("Insert", at, <<>>, <<blk>>)

DeleteDelta(b, at) == Delta("Delete", at, <<b[at]>>, <<>>)

MoveDelta(b, at, s) ==
    Delta("Move", at, <<b[at]>>,
          <<Block(b[at].label, s, s + (b[at].end - b[at].start))>>)

\* Split: both halves inherit the label unless the caller supplies l1, l2
SplitDelta(b, at, t, l1, l2) ==
    Delta("Split", at, <<b[at]>>,
          <<Block(l1, b[at].start, t), Block(l2, t, b[at].end)>>)

\* the merge records the merged block's label for both removed blocks
MergeDelta_LosesLabel(b, at) ==
    Delta("Merge", at,
          <<b[at], Block(b[at].label, b[at + 1].start, b[at + 1].end)>>,
          <<Block(b[at].label, b[at].start, b[at + 1].end)>>)

\* Merge keeps the earlier block's label
MergeDelta(b, at) ==
    Delta("Merge", at, <<b[at], b[at + 1]>>,
          <<Block(b[at].label, b[at].start, b[at + 1].end)>>)

\* Retime moves the endpoint two blocks share
RetimeDelta(b, at, t) ==
    Delta("Retime", at, <<b[at], b[at + 1]>>,
          <<Block(b[at].label, b[at].start, t), Block(b[at + 1].label, t, b[at + 1].end)>>)

RelabelDelta(b, at, l) ==
    Delta("Relabel", at, <<b[at]>>, <<Block(l, b[at].start, b[at].end)>>)

\* a command is valid when it keeps the block list ordered and non-overlapping
ValidCommand(b, d) == ValidTimeline(ApplyDelta(b, d))

\* contiguous segmentations of [0, MaxTime) with alternating labels, as an
\* analysis result delivers them
RECURSIVE Segmentations(_, _)
Segmentations(from, l) ==
    IF from = MaxTime THEN {<<>>}
    ELSE UNION {{<<Block(l, from, to)>> \o rest :
                    rest \in Segmentations(to, IF l = "a" THEN "i" ELSE "a")} :
                to \in (from + 1)..MaxTime}

InitTimeline ==
    /\ calls = NoCalls
    /\ env = NoEnvelope
    /\ audio_data = <<>>
    /\ KernelIdle
    /\ \E b \in Segmentations(0, "a") :
          /\ tl = [blocks |-> b, past |-> <<>>, future |-> <<>>]
          /\ snaps = <<b>>

\* a valid command is applied, recorded in past, and clears the redo stack; a
\* command that would break the invariant is rejected (InvalidEdit is
\* returned to the caller) and changes nothing
Issue(d) ==
    /\ Len(tl.past) < MaxHist
    /\ ApplyDelta(tl.blocks, d) # tl.blocks
    /\ ValidCommand(tl.blocks, d)
    /\ tl' = [blocks |-> ApplyDelta(tl.blocks, d),
              past |-> Append(tl.past, d),
              future |-> <<>>]
    /\ snaps' = Append(SubSeq(snaps, 1, Len(tl.past) + 1), ApplyDelta(tl.blocks, d))
    /\ UNCHANGED <<kernelVars, calls, env>>

\* the position that keeps the blocks ordered by start_time
InsertPos(b, s) == Cardinality({k \in DOMAIN b : b[k].start < s}) + 1

Insert(l, s, e) == Issue(InsertDelta(tl.blocks, InsertPos(tl.blocks, s), Block(l, s, e)))

Delete(at) == Issue(DeleteDelta(tl.blocks, at))

Move(at, s) == Issue(MoveDelta(tl.blocks, at, s))

Split(at, t, l1, l2) == Issue(SplitDelta(tl.blocks, at, t, l1, l2))

Merge(at) == Issue(MergeDelta(tl.blocks, at))

Retime(at, t) ==
    /\ tl.blocks[at].end = tl.blocks[at + 1].start
    /\ Issue(RetimeDelta(tl.blocks, at, t))

Relabel(at, l) == Issue(RelabelDelta(tl.blocks, at, l))

\* Undo pops the most recent command, applies its inverse, pushes it to redo
Undo ==
    /\ tl.past # <<>>
    /\ LET d == tl.past[Len(tl.past)]
       IN  tl' = [blocks |-> ApplyInverse(tl.blocks, d),
                  past |-> SubSeq(tl.past, 1, Len(tl.past) - 1),
                  future |-> <<d>> \o tl.future]
    /\ UNCHANGED <<kernelVars, calls, env, snaps>>

\* Redo pops the redo stack, applies the command again, pushes it to past
Redo ==
    /\ tl.future # <<>>
    /\ LET d == Head(tl.future)
       IN  tl' = [blocks |-> ApplyDelta(tl.blocks, d),
                  past |-> Append(tl.past, d),
                  future |-> Tail(tl.future)]
    /\ UNCHANGED <<kernelVars, calls, env, snaps>>

NextTimeline ==
    \/ \E l \in Labels, s \in Times, e \in Times : Insert(l, s, e)
    \/ \E at \in DOMAIN tl.blocks : Delete(at)
    \/ \E at \in DOMAIN tl.blocks, s \in Times : Move(at, s)
    \/ \E at \in DOMAIN tl.blocks, t \in Times, l1 \in Labels, l2 \in Labels :
          Split(at, t, l1, l2)
    \/ \E at \in 1..(Len(tl.blocks) - 1) : Merge(at)
    \/ \E at \in 1..(Len(tl.blocks) - 1), t \in Times : Retime(at, t)
    \/ \E at \in DOMAIN tl.blocks, l \in Labels : Relabel(at, l)
    \/ Undo
    \/ Redo

SpecTimeline == InitTimeline /\ [][NextTimeline]_vars

\* C8: after any N valid commands, N undos restore a block list structurally
\* identical to the initial one and N redos after that restore the list the
\* N commands had reached: at every point the block list is the list that
\* was reached after the first Len(past) commands.
C8_UndoRedo ==
    /\ Len(snaps) = Len(tl.past) + Len(tl.future) + 1
    /\ tl.blocks = snaps[Len(tl.past) + 1]
    /\ tl.past = <<>> => tl.blocks = snaps[1]
    /\ tl.future = <<>> => tl.blocks = snaps[Len(snaps)]
    /\ ValidTimeline(tl.blocks)

C8_Witness ==
    /\ Len(tl.future) = MaxHist
    /\ tl.past = <<>>
    /\ tl.future[1].op = "Merge"
    /\ tl.future[2].op = "Split"
    /\ tl.blocks = snaps[1]
    /\ snaps[1] # snaps[2] /\ snaps[2] # snaps[3] /\ snaps[3] # snaps[1]

\* ------------------------------------------------------------ next-state
Next ==
    \/ Enter
    \/ RaiseEmpty
    \/ Fork
    \/ \E t \in DOMAIN tpc : Accumulate(t)
    \/ \E t \in DOMAIN tpc : Combine(t)
    \/ Return

Spec == Init /\ [][Next]_vars

NextTwoRuns == Next \/ CallAgain

SpecTwoRuns == Init /\ [][NextTwoRuns]_vars

=============================================================================
